---------------------------- MODULE Spec2Model ----------------------------
(***************************************************************************)
(* EEGDataLoader (src/data_loader.py): trial extraction from a recording   *)
(* table, the five-stage conditioning pipeline, dataset assembly and       *)
(* random access.                                                          *)
(*                                                                         *)
(* Python sequences are 0-based; the model keeps them as TLA+ sequences    *)
(* and reads position i of a Python sequence as element i + 1.             *)
(*                                                                         *)
(* The low-pass filter, common-average reference and ICA stages compute    *)
(* floating-point values; the model keeps such a value uninterpreted, as   *)
(* the term <<stage, input cell>>, and models exactly what the stages do   *)
(* to the batch's shape, order and dataflow.  Min-max normalisation is     *)
(* modelled twice: as a pipeline stage over such terms, and exactly, over  *)
(* integers with rational results, for its arithmetic.                     *)
(***************************************************************************)
EXTENDS Integers, Sequences, FiniteSets, TLC

VARIABLES
    root,             \* the root directory: session name -> its files' tables, in glob order
    class_type,       \* constructor / extract_trials argument
    trial_type,       \* constructor / extract_trials argument
    pc,               \* position in __init__ / get_trials, or of the function under check
    sessions,         \* self.sessions
    file_no,          \* number of files the nested loops of get_trials have completed
    df,               \* the table load_eeg_data returned last
    extracted,        \* what extract_trials returned last
    all_trials,       \* get_trials: all_trials
    all_labels,       \* get_trials: all_labels
    filtered_data,    \* get_trials locals, one per stage
    referenced_data,
    cleaned_data,
    downsampled_data,
    data,             \* self.data
    labels,           \* self.labels
    error,            \* the exception that ended construction, or "none"
    calls,            \* the calls made so far, in order
    item,             \* what __getitem__ returned (or raised) last
    norm_in,          \* _min_max_normalization_per_signal under check: its data
    feature_range,    \*   its feature_range
    norm_out          \*   its result

vars == <<root, class_type, trial_type, pc, sessions, file_no, df, extracted,
          all_trials, all_labels, filtered_data, referenced_data, cleaned_data,
          downsampled_data, data, labels, error, calls, item,
          norm_in, feature_range, norm_out>>

-----------------------------------------------------------------------------
(* Bounds of the model *)

\* target_samples defaults to 4000 (data_loader.py:78); the model scales it to
\* 2 * HalfTarget, keeping it even.
HalfTarget == 2

\* most marker events in one table handed to extract_trials on its own
MaxEvents == 5

\* most session directories under the root, and most files in one session
MaxSessions == 2

MaxFiles == 2

\* normalisation under check: samples per channel, largest sample magnitude
NormSamples == 3

NormMaxAbs == 1

-----------------------------------------------------------------------------
(* Configuration *)

selected_electrodes ==
    [ x \in {"AK-SREP", "CTK-SREP", "AK-SRES", "CTK-SRES"} |->
        CASE x = "AK-SREP"  -> <<"F8", "FCz", "Fp1", "AF7", "AF3", "C1", "FC4", "F1", "Pz", "F2", "P5", "P6">>
          [] x = "CTK-SREP" -> <<"F1", "P5", "F4", "AF7", "PO5", "FC1", "FCz", "Fp2", "Fz", "PO3", "TP8", "F4">>
          [] x = "AK-SRES"  -> <<"AF8", "FC6", "F8", "T8", "C6", "AF7", "Fp2", "CP6", "Fpz", "F4", "TP8", "P6">>
          [] x = "CTK-SRES" -> <<"F1", "P4", "F4", "AF3", "CP6", "P5", "Fz", "FC2", "FC1", "P6", "PC6", "F2">> ]

ClassTypes == DOMAIN selected_electrodes

\* the class_type arguments tried: the four configured tags and one that is not
ClassTypeArgs == ClassTypes \cup {"AK-XXXX"}

\* the tag extract_trials tests for; every other tag takes the else branch
ReadingTag == "reading"

\* the trial_type arguments tried: the two task families and a tag that is neither
SpeakingTag == "speaking"

TrialTypeArgs == {ReadingTag, SpeakingTag, "bogus"}

factor == 2

default_feature_range == <<0, 1>>

target_samples == 2 * HalfTarget

-----------------------------------------------------------------------------
(* Recording tables.  A table is [base, sig, ev]: ev is the trailing event   *)
(* column, one entry per row, <<>> for a null and <<v>> for marker v; the   *)
(* channel columns are given by Cell.  The index is the default 0..n-1.      *)

AllNames ==
    selected_electrodes["AK-SREP"] \o selected_electrodes["CTK-SREP"]
      \o selected_electrodes["AK-SRES"] \o selected_electrodes["CTK-SRES"]

Channels == {AllNames[k] : k \in DOMAIN AllNames}

ChanNo == [ch \in Channels |-> CHOOSE k \in DOMAIN AllNames :
                /\ AllNames[k] = ch
                /\ \A j \in 1..(k - 1) : AllNames[j] # ch]

RowStride == 64

\* df.loc[r, ch]: a "ramp" table holds a different nonzero value in every cell,
\* a "const" table one nonzero value per channel
Cell(t, ch, r) ==
    IF t.sig = "const" THEN t.base + ChanNo[ch]
    ELSE t.base + ChanNo[ch] * RowStride + r + 1

NRows(t) == Len(t.ev)

RECURSIVE SumGaps(_, _)
SumGaps(gaps, j) == IF j = 0 THEN 0 ELSE gaps[j] + SumGaps(gaps, j - 1)

\* the table whose k-th marker is vals[k], the first on row 1 and each next
\* one gaps[k] rows after the one before; one null row follows the last
MkTable(base, sig, vals, gaps) ==
    LET row(k) == 1 + SumGaps(gaps, k - 1)
        n == IF Len(vals) = 0 THEN 2 ELSE row(Len(vals)) + 2
    IN [base |-> base, sig |-> sig,
        ev |-> [r \in 1..n |->
                  IF \E k \in DOMAIN vals : row(k) = r - 1
                  THEN <<vals[CHOOSE k \in DOMAIN vals : row(k) = r - 1]>>
                  ELSE <<>>]]

MarkerCodes == {21, 30, 3}

\* distances between consecutive markers: closed spans of target_samples - 1,
\* target_samples and target_samples + 1 rows
Gaps == {target_samples - 2, target_samples - 1, target_samples}

\* the tables of at most n markers, the distances between them alternating
\* between two of Gaps
ExtractTables(n) ==
    UNION { { MkTable(0, "ramp", vals,
                      [j \in 1..(IF k = 0 THEN 0 ELSE k - 1) |-> IF j % 2 = 1 THEN g[1] ELSE g[2]]) :
                vals \in [1..k -> MarkerCodes], g \in Gaps \X Gaps } :
            k \in 0..n }

-----------------------------------------------------------------------------
(* Python indexing *)

\* seq[i] for a Python list or numpy array: a negative i counts from the end
PyInRange(seq, i) == -Len(seq) <= i /\ i < Len(seq)

PyIndex(seq, i) == IF i >= 0 THEN seq[i + 1] ELSE seq[Len(seq) + i + 1]

-----------------------------------------------------------------------------
(* extract_trials *)

event_indices(t) ==
    SelectSeq([r \in 1..NRows(t) |-> r - 1], LAMBDA r : t.ev[r + 1] # <<>>)

event_values(t) ==
    LET marked == SelectSeq(t.ev, LAMBDA e : e # <<>>)
    IN [k \in 1..Len(marked) |-> marked[k][1]]

start_event(tt) == IF tt = ReadingTag THEN 21 ELSE 30

label_index(tt, i) == IF tt = ReadingTag THEN i - 1 ELSE i - 3

\* (mutant) the slice read as half-open, like a positional slice
LocSliceHalfOpen(t, start_idx, end_idx, cols) ==
    [c \in 1..Len(cols) |->
        [j \in 1..(end_idx - start_idx) |-> Cell(t, cols[c], start_idx + j - 1)]]

\* (mutant) the slice begun one row early
LocSliceRowEarly(t, start_idx, end_idx, cols) ==
    [c \in 1..Len(cols) |->
        [j \in 1..(end_idx - start_idx + 2) |-> Cell(t, cols[c], start_idx + j - 2)]]

\* df.loc[start_idx:end_idx, selected_electrodes].values.T: a label slice,
\* closed at both ends, one row of the result per listed name
LocSlice(t, start_idx, end_idx, cols) ==
    [c \in 1..Len(cols) |->
        [j \in 1..(end_idx - start_idx + 1) |-> Cell(t, cols[c], start_idx + j - 1)]]

Columns(m) == IF Len(m) = 0 THEN 0 ELSE Len(m[1])

\* (mutant) a short span is left as it is
PadOrTruncateNoPad(trial_data, target) ==
    IF Columns(trial_data) > target
    THEN [c \in DOMAIN trial_data |-> SubSeq(trial_data[c], 1, target)]
    ELSE trial_data

PadOrTruncate(trial_data, target) ==
    LET current_samples == Columns(trial_data)
    IN IF current_samples < target
       THEN [c \in DOMAIN trial_data |->
                trial_data[c] \o [j \in 1..(target - current_samples) |-> 0]]
       ELSE IF current_samples > target
       THEN [c \in DOMAIN trial_data |-> SubSeq(trial_data[c], 1, target)]
       ELSE trial_data

\* (mutant) the first event is not skipped
SkipLeadingNever(i) == FALSE

\* the first skip of the loop body
SkipLeading(i) == i = 0

\* whether event i has a following event
HasNextEvent(i, idx) == i + 1 < Len(idx)

\* the loop over the event stream, from position i on
RECURSIVE ExtractLoop(_, _, _, _, _, _, _, _)
ExtractLoop(t, cols, tt, target, idx, vals, i, acc) ==
    IF i >= Len(vals) THEN acc
    ELSE IF vals[i + 1] # start_event(tt)
         THEN ExtractLoop(t, cols, tt, target, idx, vals, i + 1, acc)
    ELSE IF SkipLeading(i)
         THEN ExtractLoop(t, cols, tt, target, idx, vals, i + 1, acc)
    ELSE IF ~PyInRange(vals, label_index(tt, i))
         THEN [acc EXCEPT !.status = "IndexError"]
    ELSE IF ~HasNextEvent(i, idx)
         THEN ExtractLoop(t, cols, tt, target, idx, vals, i + 1, acc)
    ELSE LET label == PyIndex(vals, label_index(tt, i))
             trial_data == LocSlice(t, idx[i + 1], idx[i + 2], cols)
         IN ExtractLoop(t, cols, tt, target, idx, vals, i + 1,
                [acc EXCEPT !.trials = Append(@, PadOrTruncate(trial_data, target)),
                            !.labels = Append(@, label)])

NoResult == [status |-> "none", trials |-> <<>>, labels |-> <<>>]

extract_trials(t, ct, tt, target) ==
    IF ct \notin DOMAIN selected_electrodes
    THEN [status |-> "KeyError", trials |-> <<>>, labels |-> <<>>]
    ELSE ExtractLoop(t, selected_electrodes[ct], tt, target,
                     event_indices(t), event_values(t), 0,
                     [status |-> "ok", trials |-> <<>>, labels |-> <<>>])


-----------------------------------------------------------------------------
(* The conditioning pipeline.  A batch is a sequence of trials, a trial a    *)
(* sequence of channels, a channel a sequence of cells.                      *)

\* the batch with every cell replaced by the uninterpreted value the stage
\* computes at that position; the shape is the input's
Tag(stage, d) ==
    [k \in DOMAIN d |-> [c \in DOMAIN d[k] |-> [j \in DOMAIN d[k][c] |->
        <<stage, d[k][c][j]>>]]]

\* filtfilt(b, a, data, axis=-1): an empty batch has a last axis of length 0,
\* not longer than the filter's padding (24 samples for order 7), and is
\* refused; a trial of target_samples = 4000 samples is longer than it
_butterworth_lowpass_filter(d) ==
    IF Len(d) = 0 THEN [status |-> "ValueError", value |-> <<>>]
    ELSE [status |-> "ok", value |-> Tag("lowpass", d)]

_common_average_reference(d) == Tag("car", d)

RECURSIVE IcaLoop(_, _, _)
IcaLoop(reshaped_data, k, cleaned) ==
    IF k > Len(reshaped_data) THEN cleaned
    ELSE IcaLoop(reshaped_data, k + 1,
                 Append(cleaned, Tag("ica", <<reshaped_data[k]>>)[1]))

\* (mutant) the cleaned trials collected in reverse
_apply_ica_reversed(d) ==
    LET cleaned == IcaLoop(d, 1, <<>>)
    IN [k \in DOMAIN cleaned |-> cleaned[Len(cleaned) + 1 - k]]

_apply_ica(d) == IcaLoop(d, 1, <<>>)

\* seq[::f]
Stride(seq, f) == [j \in 1..((Len(seq) + f - 1) \div f) |-> seq[(j - 1) * f + 1]]

_downsample(d, f) == [k \in DOMAIN d |-> [c \in DOMAIN d[k] |-> Stride(d[k][c], f)]]

\* _min_max_normalization_per_signal as a stage of the pipeline
normalize_stage(d) == Tag("minmax", d)

-----------------------------------------------------------------------------
(* _min_max_normalization_per_signal, exactly: integer samples in, each      *)
(* result the rational num / den.                                            *)

SeqMin(s) == CHOOSE x \in {s[j] : j \in DOMAIN s} : \A j \in DOMAIN s : x <= s[j]

SeqMax(s) == CHOOSE x \in {s[j] : j \in DOMAIN s} : \A j \in DOMAIN s : x >= s[j]

\* (mutant) a zero range is kept
SafeRangeUnguarded(data_range) == data_range

\* data_range[data_range == 0] = 1
SafeRange(data_range) == IF data_range = 0 THEN 1 ELSE data_range

_min_max_normalization_per_signal(d, range) ==
    LET min_val == range[1]
        max_val == range[2]
    IN [k \in DOMAIN d |-> [c \in DOMAIN d[k] |->
          LET data_min == SeqMin(d[k][c])
              data_max == SeqMax(d[k][c])
              data_range == SafeRange(data_max - data_min)
          IN [j \in DOMAIN d[k][c] |->
                [num |-> (d[k][c][j] - data_min) * (max_val - min_val) + min_val * data_range,
                 den |-> data_range]]]]

-----------------------------------------------------------------------------
(* The root directory *)

RECURSIVE Sorted(_)
Sorted(S) ==
    IF S = {} THEN <<>>
    ELSE LET least == CHOOSE x \in S : \A y \in S : x <= y
         IN <<least>> \o Sorted(S \ {least})

\* the nested loops of get_trials, flattened: <<session, file number>> in the
\* order the loops visit the files
RECURSIVE FileList(_, _, _)
FileList(r, sess, s) ==
    IF s > Len(sess) THEN <<>>
    ELSE [f \in 1..Len(r[sess[s]]) |-> <<sess[s], f>>] \o FileList(r, sess, s + 1)

\* load_eeg_data
load_eeg_data(r, where) == r[where[1]][where[2]]

\* the files a corpus is drawn from.  Tables 1 and 2 hold one marker pair of
\* either family framing target_samples - 2 rows of constant channels; 3 and 4
\* frame target_samples and target_samples + 1 rows; 5 holds a leading and a
\* dangling start marker only; 6 holds start markers at event positions 1, 2
\* and 3, two of them adjacent, framing 2, target_samples - 1 and
\* target_samples rows.
FileCatalog ==
    << MkTable(100, "const", <<1, 2, 3, 21, 30, 4>>, <<1, 1, 1, target_samples - 3, target_samples - 3>>),
       MkTable(200, "const", <<2, 3, 1, 21, 30, 4>>, <<1, 1, 1, target_samples - 3, target_samples - 3>>),
       MkTable(300, "ramp", <<3, 1, 2, 21, 30, 4>>, <<1, 1, 1, target_samples - 1, target_samples>>),
       MkTable(400, "ramp", <<1, 2, 3, 21, 30, 2>>, <<1, 1, 1, target_samples, target_samples - 1>>),
       MkTable(500, "ramp", <<21, 30>>, <<target_samples - 1>>),
       MkTable(600, "ramp", <<2, 30, 21, 21, 4>>, <<1, 1, target_samples - 2, target_samples - 1>>) >>

RECURSIVE FilesBefore(_, _)
FilesBefore(cnt, s) == IF s <= 1 THEN 0 ELSE cnt[s - 1] + FilesBefore(cnt, s - 1)

\* a root of Len(cnt) sessions, session s holding cnt[s] files: consecutive
\* tables of the catalog, from table `first` on
Layout(cnt, first) ==
    [s \in 1..Len(cnt) |->
        [j \in 1..cnt[s] |->
            FileCatalog[((first - 1 + FilesBefore(cnt, s) + j - 1) % Len(FileCatalog)) + 1]]]

Layouts ==
    UNION { { Layout(cnt, first) : cnt \in [1..n -> 0..MaxFiles],
                                   first \in 1..Len(FileCatalog) } :
            n \in 0..MaxSessions }

-----------------------------------------------------------------------------
(* __getitem__ *)

\* GMatrixCalculator._compute_G_matrix: a pure function of the trial
_compute_G_matrix(trial) == <<"G", trial>>

NoItem == [idx |-> 0, status |-> "none", feature |-> <<>>, adjacency |-> <<>>, label |-> 0]

\* self.data[idx]
DataIndexable(d, idx) == PyInRange(d, idx)

\* (mutant) the label is returned as extracted
__getitem__raw_label(d, l, idx) ==
    IF ~DataIndexable(d, idx)
    THEN [NoItem EXCEPT !.idx = idx, !.status = "IndexError"]
    ELSE [idx |-> idx, status |-> "ok",
          feature |-> PyIndex(d, idx),
          adjacency |-> _compute_G_matrix(PyIndex(d, idx)),
          label |-> PyIndex(l, idx)]

__getitem__(d, l, idx) ==
    IF ~DataIndexable(d, idx)
    THEN [NoItem EXCEPT !.idx = idx, !.status = "IndexError"]
    ELSE [idx |-> idx, status |-> "ok",
          feature |-> PyIndex(d, idx),
          adjacency |-> _compute_G_matrix(PyIndex(d, idx)),
          label |-> PyIndex(l, idx) - 1]

__len__(d) == Len(d)

-----------------------------------------------------------------------------
(* Construction and use of a dataset *)

NoTable == [base |-> 0, sig |-> "none", ev |-> <<>>]

Idle ==
    /\ sessions = <<>> /\ file_no = 0 /\ df = NoTable /\ extracted = NoResult
    /\ all_trials = <<>> /\ all_labels = <<>>
    /\ filtered_data = <<>> /\ referenced_data = <<>> /\ cleaned_data = <<>>
    /\ downsampled_data = <<>> /\ data = <<>> /\ labels = <<>>
    /\ error = "none" /\ calls = <<>> /\ item = NoItem

NormIdle == norm_in = <<>> /\ feature_range = default_feature_range /\ norm_out = <<>>

Init ==
    /\ root \in Layouts
    /\ class_type \in ClassTypeArgs
    /\ trial_type \in TrialTypeArgs
    /\ pc = "__init__"
    /\ Idle
    /\ NormIdle

Call(name, s, f) == [op |-> name, s |-> s, f |-> f]

\* __init__ up to the call of get_trials
Construct ==
    /\ pc = "__init__"
    /\ sessions' = Sorted(DOMAIN root)
    /\ pc' = "files"
    /\ calls' = Append(calls, Call("get_trials", 0, 0))
    /\ UNCHANGED <<root, class_type, trial_type, file_no, df, extracted, all_trials,
                   all_labels, filtered_data, referenced_data, cleaned_data,
                   downsampled_data, data, labels, error, item,
                   norm_in, feature_range, norm_out>>

Files == FileList(root, sessions, 1)

\* df = self.load_eeg_data(str(eeg_file))
LoadFile ==
    /\ pc = "files"
    /\ file_no < Len(Files)
    /\ df' = load_eeg_data(root, Files[file_no + 1])
    /\ calls' = Append(calls, Call("load_eeg_data", Files[file_no + 1][1], Files[file_no + 1][2]))
    /\ pc' = "extract"
    /\ UNCHANGED <<root, class_type, trial_type, sessions, file_no, extracted, all_trials,
                   all_labels, filtered_data, referenced_data, cleaned_data,
                   downsampled_data, data, labels, error, item,
                   norm_in, feature_range, norm_out>>

\* trials, labels = self.extract_trials(...); all_trials.extend; all_labels.extend
ExtractFile ==
    /\ pc = "extract"
    /\ LET r == extract_trials(df, class_type, trial_type, target_samples)
       IN /\ extracted' = r
          /\ calls' = Append(calls, Call("extract_trials", Files[file_no + 1][1], Files[file_no + 1][2]))
          /\ IF r.status = "ok"
             THEN /\ all_trials' = all_trials \o r.trials
                  /\ all_labels' = all_labels \o r.labels
                  /\ file_no' = file_no + 1
                  /\ pc' = "files"
                  /\ error' = error
             ELSE /\ pc' = "failed"
                  /\ error' = r.status
                  /\ UNCHANGED <<all_trials, all_labels, file_no>>
    /\ UNCHANGED <<root, class_type, trial_type, sessions, df,
                   filtered_data, referenced_data, cleaned_data,
                   downsampled_data, data, labels, item,
                   norm_in, feature_range, norm_out>>

\* 1. Apply Butterworth Filter, once the loops are over
LowPass ==
    /\ pc = "files"
    /\ file_no >= Len(Files)
    /\ LET r == _butterworth_lowpass_filter(all_trials)
       IN /\ calls' = Append(calls, Call("_butterworth_lowpass_filter", 0, 0))
          /\ IF r.status = "ok"
             THEN /\ filtered_data' = r.value
                  /\ pc' = "car"
                  /\ error' = error
             ELSE /\ pc' = "failed"
                  /\ error' = r.status
                  /\ UNCHANGED filtered_data
    /\ UNCHANGED <<root, class_type, trial_type, sessions, file_no, df, extracted,
                   all_trials, all_labels, referenced_data, cleaned_data,
                   downsampled_data, data, labels, item,
                   norm_in, feature_range, norm_out>>

\* 2. Apply CAR
CAR ==
    /\ pc = "car"
    /\ referenced_data' = _common_average_reference(filtered_data)
    /\ calls' = Append(calls, Call("_common_average_reference", 0, 0))
    /\ pc' = "ica"
    /\ UNCHANGED <<root, class_type, trial_type, sessions, file_no, df, extracted,
                   all_trials, all_labels, filtered_data, cleaned_data,
                   downsampled_data, data, labels, error, item,
                   norm_in, feature_range, norm_out>>

\* 3. Apply ICA
ICA ==
    /\ pc = "ica"
    /\ cleaned_data' = _apply_ica(referenced_data)
    /\ calls' = Append(calls, Call("_apply_ica", 0, 0))
    /\ pc' = "downsample"
    /\ UNCHANGED <<root, class_type, trial_type, sessions, file_no, df, extracted,
                   all_trials, all_labels, filtered_data, referenced_data,
                   downsampled_data, data, labels, error, item,
                   norm_in, feature_range, norm_out>>

\* 4. Downsampling
Downsample ==
    /\ pc = "downsample"
    /\ downsampled_data' = _downsample(cleaned_data, factor)
    /\ calls' = Append(calls, Call("_downsample", 0, 0))
    /\ pc' = "normalize"
    /\ UNCHANGED <<root, class_type, trial_type, sessions, file_no, df, extracted,
                   all_trials, all_labels, filtered_data, referenced_data, cleaned_data,
                   data, labels, error, item,
                   norm_in, feature_range, norm_out>>

\* 5. Normalization, the return of get_trials (its locals end) and the
\* assignment in __init__
Normalize ==
    /\ pc = "normalize"
    /\ data' = normalize_stage(downsampled_data)
    /\ labels' = all_labels
    /\ calls' = Append(calls, Call("_min_max_normalization_per_signal", 0, 0))
    /\ pc' = "ready"
    /\ df' = NoTable /\ extracted' = NoResult
    /\ all_trials' = <<>> /\ all_labels' = <<>>
    /\ filtered_data' = <<>> /\ referenced_data' = <<>> /\ cleaned_data' = <<>>
    /\ downsampled_data' = <<>>
    /\ UNCHANGED <<root, class_type, trial_type, sessions, file_no, error, item,
                   norm_in, feature_range, norm_out>>

\* __getitem__(idx) on the constructed dataset
GetItem ==
    /\ pc = "ready"
    /\ \E idx \in (-(__len__(data) + 1))..__len__(data) :
          item' = __getitem__(data, labels, idx)
    /\ UNCHANGED <<root, class_type, trial_type, pc, sessions, file_no, df, extracted,
                   all_trials, all_labels, filtered_data, referenced_data, cleaned_data,
                   downsampled_data, data, labels, error, calls,
                   norm_in, feature_range, norm_out>>

Next ==
    \/ Construct
    \/ LoadFile
    \/ ExtractFile
    \/ LowPass
    \/ CAR
    \/ ICA
    \/ Downsample
    \/ Normalize
    \/ GetItem

Spec == Init /\ [][Next]_vars

-----------------------------------------------------------------------------
(* extract_trials on its own: any table of ExtractTables, any configured     *)
(* class_type, either family.                                                *)

InitExtract ==
    /\ root = <<>>
    /\ class_type \in ClassTypes
    /\ trial_type \in {ReadingTag, SpeakingTag}
    /\ pc = "extract_trials"
    /\ sessions = <<>> /\ file_no = 0
    /\ df \in ExtractTables(MaxEvents)
    /\ extracted = NoResult
    /\ all_trials = <<>> /\ all_labels = <<>>
    /\ filtered_data = <<>> /\ referenced_data = <<>> /\ cleaned_data = <<>>
    /\ downsampled_data = <<>> /\ data = <<>> /\ labels = <<>>
    /\ error = "none" /\ calls = <<>> /\ item = NoItem
    /\ NormIdle

ExtractOnly ==
    /\ pc = "extract_trials"
    /\ extracted' = extract_trials(df, class_type, trial_type, target_samples)
    /\ pc' = "returned"
    /\ UNCHANGED <<root, class_type, trial_type, sessions, file_no, df,
                   all_trials, all_labels, filtered_data, referenced_data, cleaned_data,
                   downsampled_data, data, labels, error, calls, item,
                   norm_in, feature_range, norm_out>>

NextExtract == ExtractOnly

SpecExtract == InitExtract /\ [][NextExtract]_vars

-----------------------------------------------------------------------------
(* _min_max_normalization_per_signal on its own: one trial of two channels   *)
(* of NormSamples integer samples each.                                      *)

NormSeries == [1..NormSamples -> (-NormMaxAbs)..NormMaxAbs]

NormRanges == {default_feature_range, <<2, 5>>}

InitNorm ==
    /\ root = <<>>
    /\ class_type = "AK-SREP"
    /\ trial_type = ReadingTag
    /\ pc = "normalize_only"
    /\ Idle
    /\ norm_in \in {<< <<a, b>> >> : a \in NormSeries, b \in NormSeries}
    /\ feature_range \in NormRanges
    /\ norm_out = <<>>

NormalizeOnly ==
    /\ pc = "normalize_only"
    /\ norm_out' = _min_max_normalization_per_signal(norm_in, feature_range)
    /\ pc' = "returned"
    /\ UNCHANGED <<root, class_type, trial_type, sessions, file_no, df, extracted,
                   all_trials, all_labels, filtered_data, referenced_data, cleaned_data,
                   downsampled_data, data, labels, error, calls, item,
                   norm_in, feature_range>>

NextNorm == NormalizeOnly

SpecNorm == InitNorm /\ [][NextNorm]_vars

-----------------------------------------------------------------------------
(* Properties of extract_trials, under SpecExtract *)

Returned == pc = "returned"

\* the positions in the event stream of the start markers
StartEvents(t, tt) ==
    LET vals == event_values(t)
    IN {i \in 0..(Len(vals) - 1) : vals[i + 1] = start_event(tt)}

\* a start marker that is the first or the last event of the stream
LeadingOrDangling(t, i) == i = 0 \/ i = Len(event_values(t)) - 1

\* the start markers that have an event before and an event after, in stream order
FramedStarts(t, tt) ==
    LET last == Len(event_values(t)) - 1
    IN Sorted({i \in StartEvents(t, tt) : i # 0 /\ i # last})

\* how many events before its start marker a trial's label is
LabelOffset(tt) == IF tt = "reading" THEN 1 ELSE 3

\* the closed source span of the start marker at stream position i
SpanStart(t, i) == event_indices(t)[i + 1]

SpanEnd(t, i) == event_indices(t)[i + 2]

SpanLength(t, i) == SpanEnd(t, i) - SpanStart(t, i) + 1

Min(a, b) == IF a <= b THEN a ELSE b

\* C2: a start marker that is the first or the last event of the stream emits
\* no trial and no label and raises nothing; every other start marker emits
\* exactly one trial and one label, so the number of trials is the number of
\* start markers minus the number of leading or dangling ones.
C2_LeadingAndDanglingSkipped ==
    Returned =>
        /\ extracted.status = "ok"
        /\ Len(extracted.trials) =
              Cardinality(StartEvents(df, trial_type))
              - Cardinality({i \in StartEvents(df, trial_type) : LeadingOrDangling(df, i)})
        /\ Len(extracted.labels) = Len(extracted.trials)

\* a stream with a leading start marker, a dangling one and one in between
C2_Witness ==
    /\ Returned
    /\ 0 \in StartEvents(df, trial_type)
    /\ Len(event_values(df)) - 1 \in StartEvents(df, trial_type)
    /\ Len(event_values(df)) >= 3
    /\ Len(extracted.trials) >= 1

\* C3: every emitted label is the marker at stream position i - 1 (reading) or
\* i - 3 (otherwise) of its start event i, and that position is never before
\* the start of the stream: a start marker whose label position is negative
\* is skipped or reported, and yields no trial.
C3_LabelNeverWraps ==
    Returned =>
        \/ extracted.status # "ok"
        \/ LET proper == Sorted({i \in StartEvents(df, trial_type) :
                                    /\ ~LeadingOrDangling(df, i)
                                    /\ i - LabelOffset(trial_type) >= 0})
           IN /\ Len(extracted.labels) = Len(proper)
              /\ \A k \in 1..Len(proper) :
                    extracted.labels[k] =
                        event_values(df)[proper[k] - LabelOffset(trial_type) + 1]

\* C6: for a start marker on row s whose next marker is on row e, with
\* L = e - s + 1, column j of the trial is the source sample of row s + j for
\* j < min(L, target_samples) and 0 for L <= j < target_samples, on every
\* selected channel.
C6_SpanPaddedOrTruncated ==
    Returned =>
        LET starts == FramedStarts(df, trial_type)
            cols == selected_electrodes[class_type]
        IN /\ Len(extracted.trials) = Len(starts)
           /\ \A k \in 1..Len(starts) :
                LET s == SpanStart(df, starts[k])
                    L == SpanLength(df, starts[k])
                    trial == extracted.trials[k]
                IN /\ Len(trial) = Len(cols)
                   /\ \A c \in 1..Len(cols) :
                        /\ Len(trial[c]) = target_samples
                        /\ \A j \in 0..(target_samples - 1) :
                             trial[c][j + 1] =
                                IF j < Min(L, target_samples)
                                THEN Cell(df, cols[c], s + j)
                                ELSE 0

\* one table with a span of target_samples - 1 rows and one of target_samples + 1
C6_Witness ==
    /\ Returned
    /\ \E i \in StartEvents(df, trial_type) :
          ~LeadingOrDangling(df, i) /\ SpanLength(df, i) = target_samples - 1
    /\ \E i \in StartEvents(df, trial_type) :
          ~LeadingOrDangling(df, i) /\ SpanLength(df, i) = target_samples + 1
    /\ Len(extracted.trials) >= 2

\* the rows of the table whose samples a trial holds (the tables of
\* SpecExtract hold a different nonzero value in every cell)
SourceRows(t, ct, trial) ==
    LET held == {trial[1][j] : j \in DOMAIN trial[1]}
    IN {r \in 0..(NRows(t) - 1) : Cell(t, selected_electrodes[ct][1], r) \in held}

\* C10: two distinct trials of one table share at most one source row, and
\* share one only when their start events are adjacent in the event stream.
C10_TrialsShareAtMostOneRow ==
    Returned =>
        LET starts == FramedStarts(df, trial_type)
        IN /\ Len(extracted.trials) = Len(starts)
           /\ \A k1 \in 1..Len(starts), k2 \in 1..Len(starts) :
                k1 < k2 =>
                    LET shared == SourceRows(df, class_type, extracted.trials[k1])
                                    \cap SourceRows(df, class_type, extracted.trials[k2])
                    IN /\ Cardinality(shared) <= 1
                       /\ shared # {} => starts[k2] = starts[k1] + 1

\* two trials that share a row, and a third that shares none with the first
C10_Witness ==
    /\ Returned
    /\ Len(extracted.trials) >= 3
    /\ SourceRows(df, class_type, extracted.trials[1])
         \cap SourceRows(df, class_type, extracted.trials[2]) # {}
    /\ SourceRows(df, class_type, extracted.trials[1])
         \cap SourceRows(df, class_type, extracted.trials[3]) = {}

-----------------------------------------------------------------------------
(* Properties of the dataset, under Spec *)

Ready == pc = "ready"

HasShape(trial, rows, cols) ==
    Len(trial) = rows /\ \A c \in DOMAIN trial : Len(trial[c]) = cols

\* C1: every trial extract_trials returns has len(selected_electrodes[class_type])
\* rows and target_samples columns, whatever the length of its span; after the
\* conditioning pipeline every trial has the same rows and target_samples / 2
\* columns.
C1_TrialShapes ==
    /\ \A k \in DOMAIN extracted.trials :
          /\ class_type \in ClassTypes
          /\ HasShape(extracted.trials[k], Len(selected_electrodes[class_type]), target_samples)
    /\ \A k \in DOMAIN all_trials :
          /\ class_type \in ClassTypes
          /\ HasShape(all_trials[k], Len(selected_electrodes[class_type]), target_samples)
    /\ \A k \in DOMAIN data :
          /\ class_type \in ClassTypes
          /\ Len(data[k]) = Len(selected_electrodes[class_type])
          /\ \A c \in DOMAIN data[k] : 2 * Len(data[k][c]) = target_samples

\* a conditioned corpus of a span shorter and a span longer than target_samples
C1_Witness ==
    /\ Ready
    /\ trial_type = SpeakingTag
    /\ root = Layout(<<1, 1>>, 2)
    /\ Len(data) = 2

NamesConfigured ==
    class_type \in ClassTypes /\ trial_type \in {ReadingTag, SpeakingTag}

\* C4: with a class_type or a trial_type that is not a recognised tag,
\* construction fails before any call of load_eeg_data, whatever the root
\* holds, and never completes with the tag taken for a recognised one.
C4_FailsBeforeAnyLoad ==
    ~NamesConfigured =>
        /\ \A k \in DOMAIN calls : calls[k].op # "load_eeg_data"
        /\ ~Ready

\* C5: __getitem__(k) succeeds for 0 <= k < n only, returning the k-th
\* conditioned trial and its label minus one; for every other k, negative ones
\* included, it fails with an index error.
C5_IndexChecked ==
    item.status # "none" =>
        IF 0 <= item.idx /\ item.idx < Len(data)
        THEN /\ item.status = "ok"
             /\ item.feature = data[item.idx + 1]
             /\ item.label = labels[item.idx + 1] - 1
        ELSE item.status = "IndexError"

\* the end-to-end scenario: two sessions of one file each, each file with one
\* start marker of the family, framed and with its label marker in the stream,
\* over fewer than target_samples rows of constant channels
TheStart(t) == CHOOSE i \in StartEvents(t, trial_type) : TRUE

Scenario ==
    /\ Ready
    /\ Len(root) = 2
    /\ \A s \in DOMAIN root :
          /\ Len(root[s]) = 1
          /\ root[s][1].sig = "const"
          /\ Cardinality(StartEvents(root[s][1], trial_type)) = 1
          /\ ~LeadingOrDangling(root[s][1], TheStart(root[s][1]))
          /\ TheStart(root[s][1]) - LabelOffset(trial_type) >= 0
          /\ SpanLength(root[s][1], TheStart(root[s][1])) < target_samples

ScenarioLabel(s) ==
    event_values(root[s][1])[TheStart(root[s][1]) - LabelOffset(trial_type) + 1]

ScenarioItemRebased ==
    (item.status = "ok" /\ item.idx \in {0, 1}) =>
        item.label = ScenarioLabel(item.idx + 1) - 1

\* C7 as stated: in the scenario the dataset has size 2, each conditioned trial
\* has one row per selected channel and half as many columns as the framed
\* span has samples (1500 for 3000), and each label __getitem__ returns is the
\* preceding marker value minus 1.
C7_EndToEndAsStated ==
    Scenario =>
        /\ Len(data) = 2
        /\ \A k \in DOMAIN data :
              /\ Len(data[k]) = Len(selected_electrodes[class_type])
              /\ \A c \in DOMAIN data[k] :
                    2 * Len(data[k][c]) = SpanLength(root[k][1], TheStart(root[k][1]))
        /\ ScenarioItemRebased

\* C7 as amended: in the scenario the dataset has size 2, each conditioned
\* trial has one row per selected channel and target_samples / 2 columns (the
\* framed span is zero-padded to target_samples before the pipeline), and each
\* label __getitem__ returns is the preceding marker value minus 1.
C7_EndToEnd ==
    Scenario =>
        /\ Len(data) = 2
        /\ \A k \in DOMAIN data :
              /\ Len(data[k]) = Len(selected_electrodes[class_type])
              /\ \A c \in DOMAIN data[k] : 2 * Len(data[k][c]) = target_samples
        /\ ScenarioItemRebased

C7_Witness == Scenario /\ item.status = "ok" /\ item.idx = 1

StageNames ==
    <<"_butterworth_lowpass_filter", "_common_average_reference", "_apply_ica",
      "_downsample", "_min_max_normalization_per_signal">>

IsStage(c) == \E n \in DOMAIN StageNames : c.op = StageNames[n]

\* the files of the root, sessions in ascending name order, each session's
\* files in their iteration order
RECURSIVE FilesInOrder(_)
FilesInOrder(s) ==
    IF s > Len(root) THEN <<>>
    ELSE [f \in 1..Len(root[s]) |-> <<s, f>>] \o FilesInOrder(s + 1)

\* the trial of the start marker at stream position i of table t, and the
\* label read for it
TrialOf(t, i) ==
    LET s == SpanStart(t, i)
        L == SpanLength(t, i)
        cols == selected_electrodes[class_type]
    IN [c \in 1..Len(cols) |->
          [j \in 1..target_samples |->
              IF j <= L THEN Cell(t, cols[c], s + j - 1) ELSE 0]]

LabelOf(t, i) == PyIndex(event_values(t), i - LabelOffset(trial_type))

RECURSIVE StartsInOrder(_, _)
StartsInOrder(files, n) ==
    IF n > Len(files) THEN <<>>
    ELSE LET t == root[files[n][1]][files[n][2]]
             starts == FramedStarts(t, trial_type)
         IN [k \in 1..Len(starts) |-> <<t, starts[k]>>] \o StartsInOrder(files, n + 1)

\* a trial after the five stages: every second sample, through the four
\* value stages in order
Conditioned(trial) ==
    [c \in DOMAIN trial |->
        [j \in 1..(target_samples \div 2) |->
            <<"minmax", <<"ica", <<"car", <<"lowpass", trial[c][2 * j - 1]>>>>>>>>]]

\* C8: the pipeline runs once, after every file of every session has been
\* extracted, its stages in the order low-pass, CAR, ICA, downsample, min-max;
\* no stage drops, duplicates or reorders trials: the conditioned corpus has as
\* many entries as the labels, and its k-th trial and the k-th label come from
\* the same start event, in session then file order.
C8_PipelineOnceInOrder ==
    LET stages == SelectSeq(calls, IsStage)
        loads == SelectSeq(calls, LAMBDA c : c.op = "load_eeg_data")
        expected == StartsInOrder(FilesInOrder(1), 1)
    IN /\ Len(stages) <= Len(StageNames)
       /\ \A n \in DOMAIN stages : stages[n].op = StageNames[n]
       /\ \A m \in DOMAIN calls, n \in DOMAIN calls :
             (m < n /\ IsStage(calls[m])) => IsStage(calls[n])
       /\ Len(stages) >= 1 =>
             [n \in DOMAIN loads |-> <<loads[n].s, loads[n].f>>] = FilesInOrder(1)
       /\ pc = "car" => Len(filtered_data) = Len(all_labels)
       /\ pc = "ica" => Len(referenced_data) = Len(all_labels)
       /\ pc = "downsample" => Len(cleaned_data) = Len(all_labels)
       /\ pc = "normalize" => Len(downsampled_data) = Len(all_labels)
       /\ Ready =>
             /\ Len(stages) = Len(StageNames)
             /\ Len(data) = Len(expected)
             /\ Len(labels) = Len(expected)
             /\ \A k \in DOMAIN expected :
                   /\ data[k] = Conditioned(TrialOf(expected[k][1], expected[k][2]))
                   /\ labels[k] = LabelOf(expected[k][1], expected[k][2])

\* a corpus of two sessions of two files each, conditioned
C8_Witness ==
    /\ Ready
    /\ Len(root) = 2
    /\ \A s \in DOMAIN root : Len(root[s]) = 2
    /\ Len(data) >= 3
    /\ data[1] # data[2]
    /\ labels[1] # labels[2]

-----------------------------------------------------------------------------
(* Properties of _min_max_normalization_per_signal, under SpecNorm *)

IsConstant(x) == \A i \in DOMAIN x, j \in DOMAIN x : x[i] = x[j]

\* C9: a channel whose samples are all equal has its divisor replaced by 1 and
\* every output equal to the lower bound of the range; nothing is divided by
\* zero; any other channel has its least sample mapped to the lower bound and
\* its greatest to the upper bound.
C9_ConstantChannelMapsToLowerBound ==
    Returned =>
        \A k \in DOMAIN norm_in : \A c \in DOMAIN norm_in[k] :
            LET x == norm_in[k][c]
                y == norm_out[k][c]
                lo == feature_range[1]
                hi == feature_range[2]
            IN /\ DOMAIN y = DOMAIN x
               /\ \A j \in DOMAIN x :
                    /\ y[j].den > 0
                    /\ IsConstant(x) => (y[j].den = 1 /\ y[j].num = lo)
                    /\ ~IsConstant(x) =>
                         /\ (\A i \in DOMAIN x : x[j] <= x[i]) => y[j].num = lo * y[j].den
                         /\ (\A i \in DOMAIN x : x[j] >= x[i]) => y[j].num = hi * y[j].den
                         /\ lo * y[j].den <= y[j].num
                         /\ y[j].num <= hi * y[j].den

\* a trial with one constant nonzero channel beside one that varies
C9_Witness ==
    /\ Returned
    /\ IsConstant(norm_in[1][1])
    /\ norm_in[1][1][1] # 0
    /\ ~IsConstant(norm_in[1][2])
    /\ feature_range = default_feature_range

=============================================================================
